---- MODULE Spec2Model ----
(***************************************************************************)
(* Model of the experiment sequence engine of cannex                       *)
(* (src/cannex/core/experiment_sequence.py): ExperimentTask,               *)
(* ExperimentSequence, SequenceExecutor (one QThread per run) and          *)
(* SequenceManager.  One ExperimentSequence object is modelled; its        *)
(* executor threads take one step per action, so that the calls of the     *)
(* main thread (manager, editing, control flags) interleave with them.     *)
(***************************************************************************)
EXTENDS Integers, Sequences, FiniteSets, TLC

VARIABLES
    tasks,            \* ExperimentSequence.tasks: the task objects, in order
    current_task,     \* ExperimentSequence.current_task (the cursor)
    status,           \* ExperimentSequence.status
    loop_stack,       \* ExperimentSequence.loop_stack: <<start, iter, max>> frames
    results,          \* ExperimentSequence.results: task name -> value
    scheduled_time,   \* ExperimentSequence.scheduled_time (a QDateTime, or NoTime)
    recurrence_type,  \* the recurrence_type attribute ("absent": not set)
    iparams,          \* instrument object -> its .parameters
    exec,             \* the SequenceExecutor threads, by creation number
    executors,        \* SequenceManager.executors[sequence.name] (0: no entry)
    sequences,        \* whether the sequence is in SequenceManager.sequences
    mgr,              \* where the main thread is inside a manager call
    now,              \* QDateTime.currentDateTime()
    started,          \* task object -> task_started signals of the latest run
    signals,          \* the signals emitted: the last one, the terminal ones
    runs,             \* calls of run_sequence made so far
    stopAtPause,      \* stop() was called while the run was paused in a loop
    stopInFlight,     \* stop() was called while a task of the run was in flight
    dryRun,           \* the latest run found no task and none was added since
    returned,         \* the last return of pause_/resume_/stop_sequence, and of which
    loaded,           \* what the last deserialisation of the sequence gave
    inames            \* instrument object -> its instrument_data["name"]

vars == << tasks, current_task, status, loop_stack, results, scheduled_time,
           recurrence_type, iparams, exec, executors, sequences, mgr, now,
           started, signals, runs, stopAtPause, stopInFlight, dryRun, returned,
           loaded, inames >>

seqVars == << tasks, current_task, status, loop_stack, results >>
schedVars == << scheduled_time, recurrence_type >>
storeVars == << executors, sequences, mgr, runs >>
fileVars == << loaded, inames >>

(***************************************************************************)
(* Bounds of the model.                                                    *)
(***************************************************************************)
MaxRepeat == 3      \* largest repeat count of a LoopStart in the catalogue
MaxStarts == 4      \* task_started signals followed per task object and run
MaxExec == 2        \* executor threads created in one behaviour
NInstr == 2         \* instrument objects on the canvas

ExecIds == 1..MaxExec
Instruments == 1..NInstr

(***************************************************************************)
(* Values.  A Python value is a tagged record, so that isinstance and      *)
(* truthiness can be computed.                                             *)
(***************************************************************************)
NoVal == [ty |-> "absent", v |-> 0]
IntVal(n) == [ty |-> "int", v |-> n]
StrVal(n) == [ty |-> "str", v |-> n]

\* What target.run_function() may return.
RetVals == {IntVal(5), IntVal(6)}

Names == {"a", "b", "x", "y"}

NoResult == [tag |-> "None", v |-> NoVal]
Res(tag) == [tag |-> tag, v |-> NoVal]

\* task.parameters: the dictionary given to the instrument (pid names its
\* other entries) and the three keys the executor itself reads.
Params(pid, cont, els, secs) ==
    [pid |-> pid, continue_on_error |-> cont, else_index |-> els, seconds |-> secs]

NoParams == Params("empty", FALSE, NoVal, "absent")

\* ExperimentTask.__init__
ExperimentTask(id, name, task_type, target, function, parameters, delay, repeat, condition) ==
    [id |-> id, name |-> name, task_type |-> task_type, target |-> target,
     function |-> function, parameters |-> parameters, delay |-> delay,
     repeat |-> repeat, condition |-> condition,
     result |-> NoResult, status |-> "pending"]

NoTask == ExperimentTask(0, "a", "none", 0, "None", NoParams, 0, 1, <<>>)

\* A task object as a thread holds it: status and result are read from the list.
Config(t) == [t EXCEPT !.status = "pending", !.result = NoResult]

SetTask(ts, id, st, res) ==
    [i \in DOMAIN ts |->
        IF ts[i].id = id THEN [ts[i] EXCEPT !.status = st, !.result = res] ELSE ts[i]]

SetStatus(ts, id, st) ==
    [i \in DOMAIN ts |-> IF ts[i].id = id THEN [ts[i] EXCEPT !.status = st] ELSE ts[i]]

SetResult(ts, id, res) ==
    [i \in DOMAIN ts |-> IF ts[i].id = id THEN [ts[i] EXCEPT !.result = res] ELSE ts[i]]

\* A QDateTime is a day number and the milliseconds since the start of that
\* day; day 0 is the first of January of a year of 365 days.
QDateTime(day, ms) == [day |-> day, ms |-> ms]
NoTime == QDateTime(-1, 0)

\* QDateTime.__le__
Before(t, u) == t.day < u.day \/ (t.day = u.day /\ t.ms <= u.ms)

\* QDateTime.addDays
addDays(t, n) == [t EXCEPT !.day = @ + n]

MonthDays == << 31, 28, 31, 30, 31, 30, 31, 31, 30, 31, 30, 31 >>
YearDays == 365

RECURSIVE MonthStart(_)
\* the day of the year (from 0) on which month m (from 1) starts
MonthStart(m) == IF m = 1 THEN 0 ELSE MonthStart(m - 1) + MonthDays[m - 1]

MonthOf(doy) == CHOOSE m \in 1..12 : MonthStart(m) <= doy /\ doy < MonthStart(m) + MonthDays[m]

\* QDateTime.addMonths(1): the same day of the next month, or that month's
\* last day when it is shorter; the time of day is kept.
addMonth(t) ==
    LET year == t.day \div YearDays
        doy == t.day % YearDays
        m == MonthOf(doy)
        dom == doy - MonthStart(m) + 1
        m2 == IF m = 12 THEN 1 ELSE m + 1
        year2 == IF m = 12 THEN year + 1 ELSE year
        dom2 == IF dom <= MonthDays[m2] THEN dom ELSE MonthDays[m2]
    IN  [t EXCEPT !.day = year2 * YearDays + MonthStart(m2) + dom2 - 1]

\* Nothing was deserialised yet.
NoLoad == [via |-> "none", tasks |-> <<>>, scheduled_time |-> NoTime,
           recurrence_type |-> "absent"]

NoExec == [pc |-> "unborn", paused |-> FALSE, stopped |-> FALSE,
           task_index |-> 0, task |-> NoTask, original_params |-> "none"]

\* What a call of the manager returned.
Return(call, value) == [call |-> call, value |-> value]
NoReturn == Return("none", FALSE)

\* QThread.isRunning()
isRunning(e) == exec[e].pc \notin {"unborn", "dead", "crashed"}

Alive == {e \in ExecIds : isRunning(e)}

Emit(kind, idx) == signals' = [signals EXCEPT !.last = <<kind, idx>>]

EmitTerminal(kind) ==
    signals' = [last |-> <<kind, -1>>, terminal |-> Append(signals.terminal, kind)]

Goto(e, pc) == exec' = [exec EXCEPT ![e].pc = pc]

(***************************************************************************)
(* ExperimentSequence                                                      *)
(***************************************************************************)
NoResults == [n \in Names |-> NoVal]

\* Mutant of ResetTasks: task.result is kept.
ResetTasksStatusOnly(ts) ==
    [i \in DOMAIN ts |-> [ts[i] EXCEPT !.status = "pending"]]

\* ExperimentSequence.reset, on the task list ts
ResetTasks(ts) ==
    [i \in DOMAIN ts |-> [ts[i] EXCEPT !.status = "pending", !.result = NoResult]]

\* Mutant of reset: results is kept.
resetKeepsResults ==
    /\ current_task' = 0
    /\ status' = "stopped"
    /\ loop_stack' = <<>>
    /\ results' = results
    /\ tasks' = ResetTasks(tasks)

reset ==
    /\ current_task' = 0
    /\ status' = "stopped"
    /\ loop_stack' = <<>>
    /\ results' = NoResults
    /\ tasks' = ResetTasks(tasks)

RemoveAt(ts, i) == [j \in 1..(Len(ts) - 1) |-> IF j < i THEN ts[j] ELSE ts[j + 1]]

Swap(ts, i, j) ==
    [k \in DOMAIN ts |-> IF k = i THEN ts[j] ELSE IF k = j THEN ts[i] ELSE ts[k]]

\* The list operations take a Python index (0-based); the model's sequences
\* are 1-based.
remove_task(ts, index) ==
    IF 0 <= index /\ index < Len(ts) THEN RemoveAt(ts, index + 1) ELSE ts

\* Mutant of move_task_up: index 0 is let through, and tasks[index-1] is then
\* tasks[-1], the last task.
move_task_upUnchecked(ts, index) ==
    IF 0 <= index /\ index < Len(ts)
    THEN Swap(ts, index + 1, IF index = 0 THEN Len(ts) ELSE index)
    ELSE ts

move_task_up(ts, index) ==
    IF 0 < index /\ index < Len(ts) THEN Swap(ts, index + 1, index) ELSE ts

move_task_down(ts, index) ==
    IF 0 <= index /\ index < Len(ts) - 1 THEN Swap(ts, index + 1, index + 2) ELSE ts

(***************************************************************************)
(* The condition of a Condition task.  A condition string is modelled by   *)
(* the list of its parts between "==" (stripped): <<>> is None or "", one  *)
(* part is a string without "==".                                          *)
(***************************************************************************)
IntLits == {"5", "6"}
IntOf(s) == IF s = "5" THEN 5 ELSE 6
FloatLits == {"5", "6", "5.0"}
FloatOf(s) == IF s \in {"5", "5.0"} THEN 5 ELSE 6
StrText(n) == IF n = 5 THEN "5" ELSE "abc"

\* lines 225-251: the value of `result`
EvalCondition(condition, res) ==
    /\ Len(condition) >= 2
    /\ Len(condition) = 2
    /\ condition[1] \in Names
    /\ res[condition[1]].ty # "absent"
    /\ LET left_value == res[condition[1]]
           right == condition[2]
       IN  CASE left_value.ty = "int" -> right \in IntLits /\ left_value.v = IntOf(right)
             [] left_value.ty = "float" -> right \in FloatLits /\ left_value.v = FloatOf(right)
             [] OTHER -> StrText(left_value.v) = right

\* Python truthiness of task.parameters.get("else_index")
Truthy(val) ==
    CASE val.ty = "absent" -> FALSE
      [] val.ty = "int" -> val.v # 0
      [] OTHER -> TRUE

\* Mutant of ElseWanted: the value of the condition is not looked at.
ElseWantedAlways(result, task_index, ntasks, els) ==
    /\ task_index + 1 < ntasks
    /\ Truthy(els)

\* line 255: whether the else branch is looked at
ElseWanted(result, task_index, ntasks, els) ==
    /\ ~result
    /\ task_index + 1 < ntasks
    /\ Truthy(els)

\* line 257: int(...) of a string that is no number raises ValueError
IntRaises(val) == val.ty = "str"

\* line 258
InRange(jump_index, ntasks) == 0 <= jump_index /\ jump_index < ntasks

(***************************************************************************)
(* SequenceExecutor.run, one action per step of the thread.  pc is where    *)
(* the thread is:                                                          *)
(*   start (147)  setrun (148)  guard (150)  pause (152-155)               *)
(*   stopchk (157-160)  fetch (163-168)  begin (171-172)                   *)
(*   dispatch (174-266)  call (183, the instrument call in flight)         *)
(*   advance (281)  epi (283)  epi_complete (284-285)                      *)
(*   epi_stopped (287-288)  dead (run returned)  crashed (IndexError at    *)
(*   line 164, outside the try)                                            *)
(***************************************************************************)
At(e, pc) == exec[e].pc = pc

\* lines 146-147: sequence.reset()
ExecReset(e) ==
    /\ At(e, "start")
    /\ reset
    /\ started' = [i \in DOMAIN started |-> 0]
    /\ signals' = [last |-> <<"none", -1>>, terminal |-> <<>>]
    /\ stopAtPause' = FALSE
    /\ stopInFlight' = FALSE
    /\ dryRun' = (Len(tasks) = 0)
    /\ Goto(e, "setrun")
    /\ UNCHANGED << schedVars, iparams, storeVars, now, returned, fileVars >>

\* line 148
ExecSetRunning(e) ==
    /\ At(e, "setrun")
    /\ status' = "running"
    /\ Goto(e, "guard")
    /\ UNCHANGED << tasks, current_task, loop_stack, results, schedVars, iparams,
                    storeVars, now, started, signals, stopAtPause, stopInFlight, dryRun, returned,
                    fileVars >>

\* line 150: the guard of the main loop
LoopGuard(e) == current_task < Len(tasks) /\ ~exec[e].stopped

ExecGuard(e) ==
    /\ At(e, "guard")
    /\ Goto(e, IF LoopGuard(e) THEN "pause" ELSE "epi")
    /\ UNCHANGED << seqVars, schedVars, iparams, storeVars, now, started, signals,
                    stopAtPause, stopInFlight, dryRun, returned,
                    fileVars >>

\* Mutant of ExecPauseCheck: a turn of the pause loop leaves the status.
ExecPauseCheckKeepsStatus(e) ==
    /\ At(e, "pause")
    /\ IF exec[e].paused /\ ~exec[e].stopped
       THEN /\ Emit("sequence_paused", -1)
            /\ UNCHANGED << exec, status >>
       ELSE /\ Goto(e, "stopchk")
            /\ UNCHANGED << status, signals >>
    /\ UNCHANGED << tasks, current_task, loop_stack, results, schedVars, iparams,
                    storeVars, now, started, stopAtPause, stopInFlight, dryRun, returned,
                    fileVars >>

\* lines 152-155: one turn of the pause loop, or leaving it
ExecPauseCheck(e) ==
    /\ At(e, "pause")
    /\ IF exec[e].paused /\ ~exec[e].stopped
       THEN /\ status' = "paused"
            /\ Emit("sequence_paused", -1)
            /\ UNCHANGED exec
       ELSE /\ Goto(e, "stopchk")
            /\ UNCHANGED << status, signals >>
    /\ UNCHANGED << tasks, current_task, loop_stack, results, schedVars, iparams,
                    storeVars, now, started, stopAtPause, stopInFlight, dryRun, returned,
                    fileVars >>

\* Mutant of ExecStopCheck: the stop check of line 157 is missing.
ExecStopCheckMissing(e) ==
    /\ At(e, "stopchk")
    /\ status' = "running"
    /\ Goto(e, "fetch")
    /\ UNCHANGED << tasks, current_task, loop_stack, results, schedVars, iparams,
                    storeVars, now, started, signals, stopAtPause, stopInFlight, dryRun, returned,
                    fileVars >>

\* lines 157-160
ExecStopCheck(e) ==
    /\ At(e, "stopchk")
    /\ IF exec[e].stopped
       THEN /\ Goto(e, "epi")
            /\ UNCHANGED status
       ELSE /\ status' = "running"
            /\ Goto(e, "fetch")
    /\ UNCHANGED << tasks, current_task, loop_stack, results, schedVars, iparams,
                    storeVars, now, started, signals, stopAtPause, stopInFlight, dryRun, returned,
                    fileVars >>

\* lines 163-168: task = sequence.tasks[task_index] raises IndexError, outside
\* the try, when the list was shortened since the guard; the delay is a sleep.
ExecFetch(e) ==
    /\ At(e, "fetch")
    /\ IF current_task < Len(tasks)
       THEN exec' = [exec EXCEPT ![e].pc = "begin",
                                 ![e].task_index = current_task,
                                 ![e].task = Config(tasks[current_task + 1])]
       ELSE exec' = [exec EXCEPT ![e] = [NoExec EXCEPT !.pc = "crashed"]]
    /\ UNCHANGED << seqVars, schedVars, iparams, storeVars, now, started, signals,
                    stopAtPause, stopInFlight, dryRun, returned,
                    fileVars >>

\* lines 171-172
ExecBegin(e) ==
    /\ At(e, "begin")
    /\ started[exec[e].task.id] < MaxStarts
    /\ tasks' = SetStatus(tasks, exec[e].task.id, "running")
    /\ started' = [started EXCEPT ![exec[e].task.id] = @ + 1]
    /\ Emit("task_started", exec[e].task_index)
    /\ Goto(e, "dispatch")
    /\ UNCHANGED << current_task, status, loop_stack, results, schedVars, iparams,
                    storeVars, now, stopAtPause, stopInFlight, dryRun, returned,
                    fileVars >>

\* Mutant of HandleException: continue_on_error is not looked at.
HandleExceptionFailFast(e) ==
    /\ tasks' = SetTask(tasks, exec[e].task.id, "error", Res("Error"))
    /\ Emit("task_error", exec[e].task_index)
    /\ status' = "stopped"
    /\ exec' = [exec EXCEPT ![e].stopped = TRUE, ![e].pc = "epi"]

\* lines 268-278: the except handler.  It sets tasks, signals, status and exec.
HandleException(e) ==
    /\ tasks' = SetTask(tasks, exec[e].task.id, "error", Res("Error"))
    /\ Emit("task_error", exec[e].task_index)
    /\ IF ~exec[e].task.parameters.continue_on_error
       THEN /\ status' = "stopped"
            /\ exec' = [exec EXCEPT ![e].stopped = TRUE, ![e].pc = "epi"]
       ELSE /\ UNCHANGED status
            /\ Goto(e, "advance")

\* lines 265-266.  It sets tasks, signals and exec.
Complete(e, res) ==
    /\ tasks' = SetTask(tasks, exec[e].task.id, "complete", res)
    /\ Emit("task_completed", exec[e].task_index)
    /\ Goto(e, "advance")

\* lines 175-191, up to the call of run_function
DispatchInstrument(e) ==
    LET task == exec[e].task IN
    IF task.target # 0 /\ task.function # "None"
    THEN /\ exec' = [exec EXCEPT ![e].pc = "call",
                                 ![e].original_params = iparams[task.target]]
         /\ iparams' = [iparams EXCEPT ![task.target] = task.parameters.pid]
         /\ UNCHANGED << seqVars, signals >>
    ELSE /\ HandleException(e)
         /\ UNCHANGED << current_task, loop_stack, results, iparams >>

\* lines 183-189 and 265-266: run_function returned v
InstrumentReturn(e, v) ==
    LET task == exec[e].task IN
    /\ iparams' = [iparams EXCEPT ![task.target] = exec[e].original_params]
    /\ results' = [results EXCEPT ![task.name] = v]
    /\ tasks' = SetTask(tasks, task.id, "complete", [tag |-> "value", v |-> v])
    /\ Emit("task_completed", exec[e].task_index)
    /\ exec' = [exec EXCEPT ![e].pc = "advance", ![e].original_params = "none"]
    /\ UNCHANGED << current_task, status, loop_stack >>

\* Mutant of InstrumentRaise: the failed call leaves an entry in results.
InstrumentRaiseStores(e) ==
    /\ HandleException(e)
    /\ results' = [results EXCEPT ![exec[e].task.name] = StrVal(0)]
    /\ UNCHANGED << current_task, loop_stack, iparams >>

\* line 183 raised: control goes to the handler, line 186 is not reached
InstrumentRaise(e) ==
    /\ HandleException(e)
    /\ UNCHANGED << current_task, loop_stack, results, iparams >>

\* lines 193-196: time.sleep raises on a value that is no non-negative number
DispatchDelay(e) ==
    /\ IF exec[e].task.parameters.seconds = "invalid"
       THEN HandleException(e)
       ELSE Complete(e, Res("Delayed")) /\ UNCHANGED status
    /\ UNCHANGED << current_task, loop_stack, results, iparams >>

\* lines 198-201
DispatchLoopStart(e) ==
    /\ loop_stack' = Append(loop_stack, << exec[e].task_index, 0, exec[e].task.repeat >>)
    /\ Complete(e, Res("Loop started"))
    /\ UNCHANGED << current_task, status, results, iparams >>

\* Mutant of DispatchLoopEnd: a LoopEnd without a frame on the stack raises.
DispatchLoopEndFatal(e) ==
    IF loop_stack # <<>>
    THEN LET top == loop_stack[Len(loop_stack)]
             start_index == top[1]
             current_iter == top[2] + 1
             max_iter == top[3]
         IN  IF current_iter < max_iter
             THEN /\ loop_stack' = [loop_stack EXCEPT ![Len(loop_stack)] =
                                        << start_index, current_iter, max_iter >>]
                  /\ current_task' = start_index
                  /\ tasks' = SetResult(tasks, exec[e].task.id, Res("Loop iteration"))
                  /\ Emit("task_completed", exec[e].task_index)
                  /\ Goto(e, "guard")
                  /\ UNCHANGED << status, results, iparams >>
             ELSE /\ loop_stack' = SubSeq(loop_stack, 1, Len(loop_stack) - 1)
                  /\ Complete(e, Res("Loop complete"))
                  /\ UNCHANGED << current_task, status, results, iparams >>
    ELSE /\ HandleException(e)
         /\ UNCHANGED << current_task, loop_stack, results, iparams >>

\* lines 203-221
DispatchLoopEnd(e) ==
    IF loop_stack # <<>>
    THEN LET top == loop_stack[Len(loop_stack)]
             start_index == top[1]
             current_iter == top[2] + 1
             max_iter == top[3]
         IN  IF current_iter < max_iter
             THEN /\ loop_stack' = [loop_stack EXCEPT ![Len(loop_stack)] =
                                        << start_index, current_iter, max_iter >>]
                  /\ current_task' = start_index
                  /\ tasks' = SetResult(tasks, exec[e].task.id, Res("Loop iteration"))
                  /\ Emit("task_completed", exec[e].task_index)
                  /\ Goto(e, "guard")
                  /\ UNCHANGED << status, results, iparams >>
             ELSE /\ loop_stack' = SubSeq(loop_stack, 1, Len(loop_stack) - 1)
                  /\ Complete(e, Res("Loop complete"))
                  /\ UNCHANGED << current_task, status, results, iparams >>
    ELSE /\ Complete(e, Res("Warning"))
         /\ UNCHANGED << current_task, status, loop_stack, results, iparams >>

\* lines 223-261
DispatchCondition(e) ==
    LET task == exec[e].task
        result == EvalCondition(task.condition, results)
        res == Res(IF result THEN "Condition True" ELSE "Condition False")
        els == task.parameters.else_index
    IN  IF ElseWanted(result, exec[e].task_index, Len(tasks), els)
        THEN IF IntRaises(els)
             THEN /\ HandleException(e)
                  /\ UNCHANGED << current_task, loop_stack, results, iparams >>
             ELSE IF InRange(els.v, Len(tasks))
                  THEN /\ current_task' = els.v
                       /\ tasks' = SetResult(tasks, task.id, res)
                       /\ Emit("task_completed", exec[e].task_index)
                       /\ Goto(e, "guard")
                       /\ UNCHANGED << status, loop_stack, results, iparams >>
                  ELSE /\ Complete(e, res)
                       /\ UNCHANGED << current_task, status, loop_stack, results, iparams >>
        ELSE /\ Complete(e, res)
             /\ UNCHANGED << current_task, status, loop_stack, results, iparams >>

\* lines 262-263
DispatchUnknown(e) ==
    /\ Complete(e, Res("Unknown task type"))
    /\ UNCHANGED << current_task, status, loop_stack, results, iparams >>

\* lines 174-266, by task.task_type
ExecDispatch(e) ==
    /\ At(e, "dispatch")
    /\ CASE exec[e].task.task_type = "instrument" -> DispatchInstrument(e)
         [] exec[e].task.task_type = "delay" -> DispatchDelay(e)
         [] exec[e].task.task_type = "loop_start" -> DispatchLoopStart(e)
         [] exec[e].task.task_type = "loop_end" -> DispatchLoopEnd(e)
         [] exec[e].task.task_type = "condition" -> DispatchCondition(e)
         [] OTHER -> DispatchUnknown(e)
    /\ UNCHANGED << schedVars, storeVars, now, started, stopAtPause, stopInFlight, dryRun, returned,
                    fileVars >>

ExecCallReturn(e) ==
    /\ At(e, "call")
    /\ \E v \in RetVals : InstrumentReturn(e, v)
    /\ UNCHANGED << schedVars, storeVars, now, started, stopAtPause, stopInFlight, dryRun, returned,
                    fileVars >>

ExecCallRaise(e) ==
    /\ At(e, "call")
    /\ InstrumentRaise(e)
    /\ UNCHANGED << schedVars, storeVars, now, started, stopAtPause, stopInFlight, dryRun, returned,
                    fileVars >>

\* line 281
ExecAdvance(e) ==
    /\ At(e, "advance")
    /\ current_task' = current_task + 1
    /\ Goto(e, "guard")
    /\ UNCHANGED << tasks, status, loop_stack, results, schedVars, iparams, storeVars,
                    now, started, signals, stopAtPause, stopInFlight, dryRun, returned,
                    fileVars >>

\* line 283: the test of the epilogue
EndsComplete(e) == current_task >= Len(tasks) /\ ~exec[e].stopped

ExecEpilogue(e) ==
    /\ At(e, "epi")
    /\ Goto(e, IF EndsComplete(e) THEN "epi_complete" ELSE "epi_stopped")
    /\ UNCHANGED << seqVars, schedVars, iparams, storeVars, now, started, signals,
                    stopAtPause, stopInFlight, dryRun, returned,
                    fileVars >>

\* lines 284-285 or 287-288; run returns and the thread finishes
ExecFinish(e) ==
    /\ exec[e].pc \in {"epi_complete", "epi_stopped"}
    /\ status' = IF At(e, "epi_complete") THEN "complete" ELSE "stopped"
    /\ EmitTerminal(IF At(e, "epi_complete") THEN "sequence_completed" ELSE "sequence_stopped")
    /\ exec' = [exec EXCEPT ![e] = [NoExec EXCEPT !.pc = "dead"]]
    /\ UNCHANGED << tasks, current_task, loop_stack, results, schedVars, iparams,
                    storeVars, now, started, stopAtPause, stopInFlight, dryRun, returned,
                    fileVars >>

\* SequenceExecutor.pause / resume / stop (lines 290-300), called on a thread
\* object from the main thread
\* Mutant of stop: the call abandons the dispatch in flight.
stopPreempts(e) == exec' = [exec EXCEPT ![e].stopped = TRUE, ![e].pc = "epi"]

pause(e) == exec' = [exec EXCEPT ![e].paused = TRUE]
resume(e) == exec' = [exec EXCEPT ![e].paused = FALSE]
stop(e) == exec' = [exec EXCEPT ![e].stopped = TRUE]

\* The run is paused inside a loop with the task at the cursor not started.
PausedInLoop(e) ==
    /\ exec[e].paused
    /\ status = "paused"
    /\ loop_stack # <<>>
    /\ exec[e].pc \in {"pause", "stopchk"}

\* A task of the run is in flight: task_started was emitted (line 172) and the
\* dispatch (lines 174-278) has not ended.
InFlight(e) == exec[e].pc \in {"dispatch", "call"}

(***************************************************************************)
(* The control calls as the window makes them on its executor              *)
(* (src/cannex/ui/main_window.py, run_sequence / pause_sequence /          *)
(* stop_sequence): each only sets a flag of a running thread.              *)
(***************************************************************************)
UserPause(e) ==
    /\ isRunning(e) /\ ~exec[e].paused
    /\ pause(e)
    /\ UNCHANGED << seqVars, schedVars, iparams, storeVars, now, started, signals,
                    stopAtPause, stopInFlight, dryRun, returned,
                    fileVars >>

UserResume(e) ==
    /\ isRunning(e) /\ exec[e].paused
    /\ resume(e)
    /\ UNCHANGED << seqVars, schedVars, iparams, storeVars, now, started, signals,
                    stopAtPause, stopInFlight, dryRun, returned,
                    fileVars >>

UserStop(e) ==
    /\ isRunning(e) /\ ~exec[e].stopped
    /\ stop(e)
    /\ stopAtPause' = (stopAtPause \/ PausedInLoop(e))
    /\ stopInFlight' = (stopInFlight \/ InFlight(e))
    /\ UNCHANGED << dryRun, returned >>
    /\ UNCHANGED << seqVars, schedVars, iparams, storeVars, now, started, signals,
                    fileVars >>

(***************************************************************************)
(* The sequences the runs are checked on.                                  *)
(***************************************************************************)
Instr(id, name, cont) ==
    ExperimentTask(id, name, "instrument", 1, "measure",
                   Params("task", cont, NoVal, "absent"), 0, 1, <<>>)

\* an Instrument task whose target was not resolved
Untargeted(id, name, cont) ==
    ExperimentTask(id, name, "instrument", 0, "measure",
                   Params("task", cont, NoVal, "absent"), 0, 1, <<>>)

Delay(id, name, secs, cont) ==
    ExperimentTask(id, name, "delay", 0, "None", Params("task", cont, NoVal, secs), 0, 1, <<>>)

LoopStart(id, name, n) ==
    ExperimentTask(id, name, "loop_start", 0, "None", NoParams, 0, n, <<>>)

LoopEnd(id, name) ==
    ExperimentTask(id, name, "loop_end", 0, "None", NoParams, 0, 1, <<>>)

Condition(id, name, cond, els) ==
    ExperimentTask(id, name, "condition", 0, "None",
                   Params("task", FALSE, els, "absent"), 0, 1, cond)

Unknown(id, name) ==
    ExperimentTask(id, name, "plot", 0, "None", NoParams, 0, 1, <<>>)

ElseValues == {NoVal, IntVal(0), IntVal(1), IntVal(2), IntVal(7), StrVal(1)}

LoopPrograms ==
    { << LoopStart(1, "a", n), Instr(2, "x", FALSE), LoopEnd(3, "b") >> : n \in 1..MaxRepeat }

ConditionPrograms ==
    { << Instr(1, "x", FALSE), Condition(2, "a", << "x", "6" >>, els), Instr(3, "y", FALSE) >> :
        els \in ElseValues }
    \cup
    { << Instr(1, "x", FALSE), Instr(2, "y", FALSE), Condition(3, "a", << "x", "6" >>, els) >> :
        els \in {IntVal(0), IntVal(1)} }

ErrorPrograms ==
    { << Instr(1, "x", cont), Instr(2, "y", FALSE) >> : cont \in BOOLEAN }
    \cup
    { << Untargeted(1, "x", cont), Delay(2, "a", secs, cont), LoopEnd(3, "b"), Unknown(4, "y") >> :
        cont \in BOOLEAN, secs \in {"absent", "invalid"} }

\* a Condition "x == 5" on the value of x, with an else_index absent, in range
\* or out of range
FallThroughPrograms ==
    { << Instr(1, "x", FALSE), Condition(2, "a", << "x", "5" >>, els), Instr(3, "y", FALSE) >> :
        els \in {NoVal, IntVal(1), IntVal(-1), IntVal(3)} }

\* condition strings that do not evaluate: None, "x", "x == 5 == 6", "y == 5"
\* (y is no key of results yet) and "x == abc" (x is an int)
MalformedConditions ==
    { <<>>, << "x" >>, << "x", "5", "6" >>, << "y", "5" >>, << "x", "abc" >> }

MalformedPrograms ==
    { << Instr(1, "x", FALSE), Condition(2, "a", cond, els), Instr(3, "y", FALSE) >> :
        cond \in MalformedConditions, els \in {NoVal, IntVal(2), StrVal(1)} }

RunCatalog ==
    LoopPrograms \cup ConditionPrograms \cup ErrorPrograms \cup FallThroughPrograms
        \cup MalformedPrograms \cup { <<>> }

TaskIds == {0} \cup UNION { {p[i].id : i \in DOMAIN p} : p \in RunCatalog }

InitSequence(ts) ==
    /\ tasks = ts
    /\ current_task = 0
    /\ status = "stopped"
    /\ loop_stack = <<>>
    /\ results = NoResults

InitRest ==
    /\ iparams = [i \in Instruments |-> "own"]
    /\ now = QDateTime(0, 0)
    /\ started = [i \in TaskIds |-> 0]
    /\ signals = [last |-> <<"none", -1>>, terminal |-> <<>>]
    /\ stopAtPause = FALSE
    /\ stopInFlight = FALSE
    /\ dryRun = FALSE
    /\ returned = NoReturn
    /\ loaded = NoLoad
    /\ inames = [i \in Instruments |-> IF i = 1 THEN "dmm" ELSE "psu"]

\* A window has built SequenceExecutor(sequence) on a new sequence of the
\* catalogue and called start().
Init ==
    /\ \E ts \in RunCatalog : InitSequence(ts)
    /\ scheduled_time = NoTime
    /\ recurrence_type = "absent"
    /\ exec = [e \in ExecIds |-> IF e = 1 THEN [NoExec EXCEPT !.pc = "start"] ELSE NoExec]
    /\ executors = 0
    /\ sequences = TRUE
    /\ mgr = "idle"
    /\ runs = 1
    /\ InitRest

ExecStep(e) ==
    \/ ExecReset(e)
    \/ ExecSetRunning(e)
    \/ ExecGuard(e)
    \/ ExecPauseCheck(e)
    \/ ExecStopCheck(e)
    \/ ExecFetch(e)
    \/ ExecBegin(e)
    \/ ExecDispatch(e)
    \/ ExecCallReturn(e)
    \/ ExecCallRaise(e)
    \/ ExecAdvance(e)
    \/ ExecEpilogue(e)
    \/ ExecFinish(e)

Next ==
    \/ \E e \in ExecIds : ExecStep(e)
    \/ \E e \in ExecIds : UserPause(e)
    \/ \E e \in ExecIds : UserResume(e)
    \/ \E e \in ExecIds : UserStop(e)

Spec == Init /\ [][Next]_vars

(***************************************************************************)
(* Claims about one run (checked under Spec).                              *)
(***************************************************************************)
IsLoopProgram == tasks \in LoopPrograms \/ ResetTasks(tasks) \in LoopPrograms

NoErrorNoStop ==
    /\ \A e \in ExecIds : ~exec[e].stopped
    /\ \A i \in DOMAIN tasks : tasks[i].status # "error"

\* C1: a sequence [LoopStart(repeat=N), body, LoopEnd] run without error and
\* without stop request starts the body exactly N times: never more than N
\* times, and N times once the run has reached Complete, with loop_stack empty
\* then.
C1_LoopBodyRunsNTimes ==
    (IsLoopProgram /\ NoErrorNoStop) =>
        /\ started[2] <= tasks[1].repeat
        /\ (status = "complete" => started[2] = tasks[1].repeat /\ loop_stack = <<>>)

\* The step of thread e that ends the dispatch of its task.
DispatchEnds(e) == At(e, "dispatch") /\ exec'[e].pc # "dispatch"

\* C2: whenever a Condition task evaluates to false and its else_index is an
\* integer k with 0 <= k < len(tasks), the dispatch sets the cursor to k and
\* goes back to the loop guard without advancing, for every such k (0
\* included) and wherever the Condition task stands (last included).
C2_ElseJumpTaken ==
    [][\A e \in ExecIds :
        (/\ DispatchEnds(e)
         /\ exec[e].task.task_type = "condition"
         /\ ~EvalCondition(exec[e].task.condition, results)
         /\ exec[e].task.parameters.else_index.ty = "int"
         /\ InRange(exec[e].task.parameters.else_index.v, Len(tasks)))
        => (current_task' = exec[e].task.parameters.else_index.v /\ exec'[e].pc = "guard")]_vars

\* C3: when the instrument call of an Instrument task ends, by returning or by
\* raising, target.parameters is again what it was before the task set it.
C3_ParametersRestored ==
    [][\A e \in ExecIds :
        (At(e, "call") /\ exec'[e].pc # "call")
        => iparams'[exec[e].task.target] = exec[e].original_params]_vars

\* The dispatch of the task of thread e raises before any instrument is
\* called: lines 191, 195 and 257.
DispatchRaises(e) ==
    LET task == exec[e].task IN
    \/ task.task_type = "instrument" /\ (task.target = 0 \/ task.function = "None")
    \/ task.task_type = "delay" /\ task.parameters.seconds = "invalid"
    \/ /\ task.task_type = "condition"
       /\ ~EvalCondition(task.condition, results)
       /\ exec[e].task_index + 1 < Len(tasks)
       /\ task.parameters.else_index.ty = "str"

\* The step of thread e in which the dispatch of its task raises.
Raises(e) == ExecCallRaise(e) \/ (ExecDispatch(e) /\ DispatchRaises(e))

\* A task without continue_on_error has failed in this run.
FailedFast ==
    \E i \in DOMAIN tasks :
        tasks[i].status = "error" /\ ~tasks[i].parameters.continue_on_error

\* C4: a failing task with continue_on_error gets status Error, the sequence
\* stays Running, the stopped flag is not touched and the next step advances
\* the cursor by one, back to the loop guard; a failing task without it gets
\* status Error, sets sequence.status to Stopped and the stopped flag, and
\* from then on no task is started in that run and the status stays Stopped.
C4_FailurePolicy ==
    /\ [][\A e \in ExecIds :
            /\ Raises(e) =>
                /\ tasks'[exec[e].task_index + 1].status = "error"
                /\ signals'.last = << "task_error", exec[e].task_index >>
                /\ IF exec[e].task.parameters.continue_on_error
                   THEN /\ status = "running" /\ status' = "running"
                        /\ exec'[e].stopped = exec[e].stopped
                        /\ exec'[e].pc = "advance"
                        /\ current_task' = current_task
                   ELSE /\ status' = "stopped"
                        /\ exec'[e].stopped
                        /\ exec'[e].pc = "epi"
            /\ (At(e, "advance") /\ exec'[e].pc # "advance") =>
                    (current_task' = current_task + 1 /\ exec'[e].pc = "guard")]_vars
    /\ [][FailedFast => (started' = started /\ status' = "stopped")]_vars
    /\ [](FailedFast => status = "stopped" /\ \A e \in ExecIds : isRunning(e) => exec[e].stopped)

\* A task with continue_on_error has failed and the next task was started.
C4_Witness ==
    /\ Len(tasks) >= 2
    /\ tasks[1].status = "error" /\ tasks[1].parameters.continue_on_error
    /\ tasks[2].status = "error" /\ ~tasks[2].parameters.continue_on_error
    /\ status = "stopped"
    /\ started[2] = 1

\* C6: after stop() was called on a run paused inside a loop body, no task is
\* started any more, and when the thread has finished the sequence is Stopped
\* and sequence_stopped is the one terminal signal emitted.
C6_StopWhilePaused ==
    /\ [][stopAtPause => (started' = started /\ \A e \in ExecIds : exec'[e].pc # "begin")]_vars
    /\ [](stopAtPause /\ Alive = {} =>
            status = "stopped" /\ signals.terminal = << "sequence_stopped" >>)

\* The run was stopped while paused before the second start of the loop body.
C6_Witness ==
    /\ stopAtPause /\ Alive = {}
    /\ IsLoopProgram
    /\ current_task = 1 /\ started[2] = 1
    /\ loop_stack # <<>>

(***************************************************************************)
(* SequenceManager, called from the main thread.  mgr is "idle" between    *)
(* calls; inside a call it names the call that is blocked in               *)
(* executor.wait() (line 408).                                             *)
(***************************************************************************)
\* Mutant of MustJoin: an executor that is no longer running is also stopped.
MustJoinAnyEntry == executors # 0

\* Mutant of MustJoin: the running executor is not looked for.
MustJoinNever == FALSE

\* lines 404-406: stop_sequence finds a running executor, which it stops and
\* waits for
MustJoin == executors # 0 /\ isRunning(executors)

\* lines 378-380 (the call was counted in runs when it was made)
StartExecutor(n) ==
    /\ exec' = [exec EXCEPT ![n] = [NoExec EXCEPT !.pc = "start"]]
    /\ executors' = n

\* lines 407-408: executor.stop(), then the caller is blocked in wait()
StopAndWait(call) ==
    /\ stop(executors)
    /\ mgr' = call
    /\ UNCHANGED executors

\* lines 371-382
MgrRunSequence ==
    /\ mgr = "idle"
    /\ runs < MaxExec
    /\ runs' = runs + 1
    /\ IF MustJoin
       THEN StopAndWait("run_sequence")
       ELSE StartExecutor(runs + 1) /\ UNCHANGED mgr
    /\ UNCHANGED << seqVars, schedVars, iparams, sequences, now, started, signals,
                    stopAtPause, stopInFlight, dryRun, returned,
                    fileVars >>

\* lines 384-391
MgrPauseSequence ==
    /\ mgr = "idle"
    /\ IF executors # 0 /\ isRunning(executors) /\ ~exec[executors].paused
       THEN pause(executors) /\ returned' = Return("pause_sequence", TRUE)
       ELSE UNCHANGED exec /\ returned' = Return("pause_sequence", FALSE)
    /\ UNCHANGED << seqVars, schedVars, iparams, storeVars, now, started, signals,
                    stopAtPause, stopInFlight, dryRun, fileVars >>

\* lines 393-400
MgrResumeSequence ==
    /\ mgr = "idle"
    /\ IF executors # 0 /\ isRunning(executors) /\ exec[executors].paused
       THEN resume(executors) /\ returned' = Return("resume_sequence", TRUE)
       ELSE UNCHANGED exec /\ returned' = Return("resume_sequence", FALSE)
    /\ UNCHANGED << seqVars, schedVars, iparams, storeVars, now, started, signals,
                    stopAtPause, stopInFlight, dryRun, fileVars >>

\* lines 402-411
MgrStopSequence ==
    /\ mgr = "idle"
    /\ IF MustJoin
       THEN /\ StopAndWait("stop_sequence")
            /\ stopAtPause' = (stopAtPause \/ PausedInLoop(executors))
            /\ stopInFlight' = (stopInFlight \/ InFlight(executors))
            /\ UNCHANGED returned
       ELSE /\ UNCHANGED << exec, executors, mgr, stopAtPause, stopInFlight >>
            /\ returned' = Return("stop_sequence", FALSE)
    /\ UNCHANGED dryRun
    /\ UNCHANGED << seqVars, schedVars, iparams, sequences, runs, now, started, signals,
                    fileVars >>

\* lines 423-432
MgrRemoveSequence ==
    /\ mgr = "idle"
    /\ IF MustJoin
       THEN StopAndWait("remove_sequence") /\ UNCHANGED sequences
       ELSE sequences' = FALSE /\ UNCHANGED << exec, executors, mgr >>
    /\ UNCHANGED << seqVars, schedVars, iparams, runs, now, started, signals,
                    stopAtPause, stopInFlight, dryRun, returned,
                    fileVars >>

\* Mutant of IsDue: the status of the sequence is not looked at.
IsDueAnyStatus == scheduled_time # NoTime /\ Before(scheduled_time, now)

\* lines 439-441
IsDue == status = "stopped" /\ scheduled_time # NoTime /\ Before(scheduled_time, now)

\* Mutant of NextSchedule: a recurrence that is none of the three known kinds
\* is rescheduled like Daily.
NextScheduleDefaultDaily(t, rec) ==
    IF rec # "absent"
    THEN CASE rec = "Daily" -> addDays(t, 1)
           [] rec = "Weekly" -> addDays(t, 7)
           [] rec = "Monthly" -> addMonth(t)
           [] OTHER -> addDays(t, 1)
    ELSE NoTime

\* Mutant of NextSchedule: Daily is rescheduled like Weekly.
NextScheduleWeekly(t, rec) ==
    IF rec # "absent"
    THEN CASE rec = "Daily" -> addDays(t, 7)
           [] rec = "Weekly" -> addDays(t, 7)
           [] rec = "Monthly" -> addMonth(t)
           [] OTHER -> NoTime
    ELSE NoTime

\* lines 444-457: the schedule after the sequence was triggered
NextSchedule(t, rec) ==
    IF rec # "absent"
    THEN CASE rec = "Daily" -> addDays(t, 1)
           [] rec = "Weekly" -> addDays(t, 7)
           [] rec = "Monthly" -> addMonth(t)
           [] OTHER -> NoTime
    ELSE NoTime

\* lines 434-460, for the one sequence of the model
MgrCheckScheduled ==
    /\ mgr = "idle"
    /\ IF sequences /\ IsDue
       THEN /\ runs < MaxExec
            /\ scheduled_time' = NextSchedule(scheduled_time, recurrence_type)
            /\ runs' = runs + 1
            /\ IF MustJoin
               THEN StopAndWait("check_scheduled_sequences")
               ELSE StartExecutor(runs + 1) /\ UNCHANGED mgr
       ELSE UNCHANGED << scheduled_time, runs, exec, executors, mgr >>
    /\ UNCHANGED << seqVars, recurrence_type, iparams, sequences, now, started, signals,
                    stopAtPause, stopInFlight, dryRun, returned,
                    fileVars >>

\* Mutant of MgrJoined: wait() returns while the thread is still running.
MgrJoinedNoWait ==
    /\ mgr # "idle"
    /\ mgr' = "idle"
    /\ IF mgr \in {"run_sequence", "check_scheduled_sequences"}
       THEN StartExecutor(runs)
       ELSE executors' = 0 /\ UNCHANGED exec
    /\ sequences' = IF mgr = "remove_sequence" THEN FALSE ELSE sequences
    /\ returned' = IF mgr = "stop_sequence" THEN Return("stop_sequence", TRUE) ELSE returned
    /\ UNCHANGED << seqVars, schedVars, iparams, runs, now, started, signals,
                    stopAtPause, stopInFlight, dryRun,
                    fileVars >>

\* lines 408-410 and what follows in the caller: wait() returns when the
\* thread has finished, the entry is deleted and the blocked call goes on
MgrJoined ==
    /\ mgr # "idle"
    /\ ~isRunning(executors)
    /\ mgr' = "idle"
    /\ IF mgr \in {"run_sequence", "check_scheduled_sequences"}
       THEN StartExecutor(runs)
       ELSE executors' = 0 /\ UNCHANGED exec
    /\ sequences' = IF mgr = "remove_sequence" THEN FALSE ELSE sequences
    /\ returned' = IF mgr = "stop_sequence" THEN Return("stop_sequence", TRUE) ELSE returned
    /\ UNCHANGED << seqVars, schedVars, iparams, runs, now, started, signals,
                    stopAtPause, stopInFlight, dryRun,
                    fileVars >>

\* The clock of the scheduler's timer.
MaxDay == 2

Tick ==
    /\ now.day < MaxDay
    /\ now' = addDays(now, 1)
    /\ UNCHANGED << seqVars, schedVars, iparams, exec, storeVars, started, signals,
                    stopAtPause, stopInFlight, dryRun, returned,
                    fileVars >>

StoreCatalog == { << Instr(1, "x", FALSE) >>, << LoopStart(1, "a", 1), Instr(2, "x", TRUE) >> }

Recurrences == {"absent", "Daily", "Weekly", "Monthly", "Custom"}

ScheduleTimes == {NoTime, QDateTime(0, 0), QDateTime(1, 500)}

\* A sequence of the catalogue was added to the manager, with a schedule or
\* without; nothing has run yet.
InitStore ==
    /\ \E ts \in StoreCatalog : InitSequence(ts)
    /\ scheduled_time \in ScheduleTimes
    /\ recurrence_type \in Recurrences
    /\ exec = [e \in ExecIds |-> NoExec]
    /\ executors = 0
    /\ sequences = TRUE
    /\ mgr = "idle"
    /\ runs = 0
    /\ InitRest

NextStore ==
    \/ \E e \in ExecIds : ExecStep(e)
    \/ MgrRunSequence
    \/ MgrPauseSequence
    \/ MgrResumeSequence
    \/ MgrStopSequence
    \/ MgrRemoveSequence
    \/ MgrCheckScheduled
    \/ MgrJoined
    \/ Tick

SpecStore == InitStore /\ [][NextStore]_vars

(***************************************************************************)
(* Claims about the manager (checked under SpecStore).                     *)
(***************************************************************************)
\* C5: never are two executor threads of the sequence alive at once, and a new
\* executor is only started when none is alive: run_sequence has stopped and
\* joined the one it found running.
C5_AtMostOneExecutor ==
    /\ [](Cardinality(Alive) <= 1)
    /\ [][\A n \in ExecIds :
            (exec[n].pc = "unborn" /\ exec'[n].pc = "start") => Alive = {}]_vars

\* run_sequence found executor 1 running, stopped it, and its wait() is about
\* to return: the thread has finished and the new executor is not yet built.
C5_Witness ==
    /\ mgr = "run_sequence"
    /\ executors = 1
    /\ exec[1].pc = "dead"
    /\ status = "stopped"

\* C7: a call of check_scheduled_sequences that finds the sequence Stopped and
\* due invokes run_sequence once (one call counted, and one executor started,
\* at once or when the join of the previous one returns); a Daily sequence has
\* its scheduled_time moved by one day with the time of day kept, a sequence
\* without recurrence_type has it cleared.
C7_CheckDueFiresOnce ==
    [][/\ (MgrCheckScheduled /\ sequences /\ IsDue) =>
            /\ runs' = runs + 1
            /\ \/ (mgr' = "idle" /\ exec'[runs'].pc = "start" /\ executors' = runs'
                   /\ \A n \in ExecIds \ {runs'} : exec'[n] = exec[n])
               \/ (mgr' = "check_scheduled_sequences" /\ \A n \in ExecIds : exec'[n].pc = exec[n].pc)
            /\ recurrence_type = "Daily" =>
                    (scheduled_time'.day = scheduled_time.day + 1
                     /\ scheduled_time'.ms = scheduled_time.ms)
            /\ recurrence_type = "absent" => scheduled_time' = NoTime
       /\ (MgrJoined /\ mgr = "check_scheduled_sequences") =>
            /\ runs' = runs
            /\ exec'[runs].pc = "start" /\ executors' = runs
            /\ \A n \in ExecIds \ {runs} : exec'[n] = exec[n]]_vars

\* The check has fired a Daily sequence that was due at day 0.
C7_Witness ==
    /\ recurrence_type = "Daily"
    /\ scheduled_time = QDateTime(1, 0)
    /\ runs = 1
    /\ exec[1].pc = "start"

\* The manager finds a running executor of the sequence.
LiveExecutor == executors # 0 /\ isRunning(executors)

\* C16: pause_sequence without a live executor or with one already paused,
\* resume_sequence without a live executor or with one not paused, and
\* stop_sequence without a live executor, return False and change neither the
\* executor flags, nor the executors map, nor the sequence.
C16_NoOpOutsideState ==
    [][/\ (MgrPauseSequence /\ (~LiveExecutor \/ exec[executors].paused)) =>
            (returned' = Return("pause_sequence", FALSE)
             /\ UNCHANGED << exec, executors, sequences, seqVars, schedVars >>)
       /\ (MgrResumeSequence /\ (~LiveExecutor \/ ~exec[executors].paused)) =>
            (returned' = Return("resume_sequence", FALSE)
             /\ UNCHANGED << exec, executors, sequences, seqVars, schedVars >>)
       /\ (MgrStopSequence /\ ~LiveExecutor) =>
            (returned' = Return("stop_sequence", FALSE)
             /\ mgr' = "idle"
             /\ UNCHANGED << exec, executors, sequences, seqVars, schedVars >>)]_vars

\* stop_sequence was called on a sequence whose executor has finished: it
\* returned False and the entry of the finished executor is still in the map.
C16_Witness ==
    /\ returned = Return("stop_sequence", FALSE)
    /\ executors = 1 /\ exec[1].pc = "dead"
    /\ mgr = "idle"

\* The step in which a call of remove_sequence returns: at once when it found
\* no running executor, or when its wait() returns.
RemoveReturns == (MgrRemoveSequence /\ ~MustJoin) \/ (MgrJoined /\ mgr = "remove_sequence")

\* C19: when remove_sequence returns, no executor thread of the sequence is
\* alive and the sequence is not in the manager's list (a running executor was
\* stopped and joined, and its entry deleted); after that no task of the
\* sequence is started and no executor is created for it, unless run_sequence
\* is called on it again: check_scheduled_sequences does not run it.
C19_RemoveStopsAndJoins ==
    [][/\ RemoveReturns =>
            /\ Alive = {} /\ Alive' = {}
            /\ ~sequences'
            /\ mgr' = "idle"
            /\ mgr = "remove_sequence" => executors' = 0
       /\ (~sequences /\ Alive = {}) =>
            /\ started' = started
            /\ \/ Alive' = {}
               \/ MgrRunSequence
               \/ (MgrJoined /\ mgr = "run_sequence")]_vars

\* remove_sequence found the executor of the first run running after its
\* first task, stopped it and waited for it, and has returned.
C19_Witness ==
    /\ ~sequences /\ Alive = {} /\ mgr = "idle"
    /\ executors = 0 /\ runs = 1
    /\ returned = NoReturn
    /\ signals.terminal = << "sequence_stopped" >>
    /\ Len(tasks) = 2
    /\ tasks[1].status = "complete" /\ tasks[2].status = "pending"

\* The step in which a call of stop_sequence returns True: its wait() returns
\* and the entry is deleted (lines 408-410).
StopReturnsTrue == MgrJoined /\ mgr = "stop_sequence"

\* C29: when stop_sequence returns True, having found a running executor, set
\* its stopped flag and joined it, the status of the sequence is Stopped,
\* wherever the executor was when the flag was set.
C29_StopLeavesStopped ==
    [][StopReturnsTrue =>
            /\ returned' = Return("stop_sequence", TRUE)
            /\ Alive' = {}
            /\ status' = "stopped"]_vars

(***************************************************************************)
(* Claims about the scheduler (checked under SpecStore).                   *)
(***************************************************************************)
\* The step in which check_scheduled_sequences finds the sequence Stopped and
\* due.
Fires == MgrCheckScheduled /\ sequences /\ IsDue

\* C23: when check_scheduled_sequences fires the sequence, the new
\* scheduled_time is given by recurrence_type alone: Daily moves it by one
\* day, Weekly by seven days, Monthly by one calendar month (31 days from a
\* day of January, the schedules of the model), each with the time of day
\* kept, and Custom or no recurrence_type attribute clears it; recurrence_type
\* is left as it is; and the schedule is already the new one when
\* run_sequence is entered, so that the executor is started, at once or after
\* the join, with the new schedule in place, which the join does not touch.
C23_ScheduleByKind ==
    [][/\ Fires =>
            /\ recurrence_type' = recurrence_type
            /\ scheduled_time' =
                    CASE recurrence_type = "Daily" ->
                            QDateTime(scheduled_time.day + 1, scheduled_time.ms)
                      [] recurrence_type = "Weekly" ->
                            QDateTime(scheduled_time.day + 7, scheduled_time.ms)
                      [] recurrence_type = "Monthly" ->
                            QDateTime(scheduled_time.day + MonthDays[1], scheduled_time.ms)
                      [] OTHER -> NoTime
            /\ scheduled_time.day < MonthDays[2]
            /\ \/ exec'[runs'].pc = "start"
               \/ mgr' = "check_scheduled_sequences"
       /\ (MgrJoined /\ mgr = "check_scheduled_sequences") =>
            (exec'[runs].pc = "start" /\ UNCHANGED << scheduled_time, recurrence_type >>)]_vars

\* The check has fired a Monthly sequence that was scheduled on the second of
\* January, half a second after midnight.
C23_Witness ==
    /\ recurrence_type = "Monthly"
    /\ scheduled_time = QDateTime(32, 500)
    /\ runs = 1
    /\ exec[1].pc = "start" /\ executors = 1

\* The sequence is not to be triggered: it is Running, Paused or Complete, or
\* has no schedule, or its scheduled_time is later than the current time.
Ineligible ==
    \/ status \in {"running", "paused", "complete"}
    \/ scheduled_time = NoTime
    \/ (scheduled_time.day > now.day
        \/ (scheduled_time.day = now.day /\ scheduled_time.ms > now.ms))

\* C24: a call of check_scheduled_sequences that finds the sequence ineligible
\* returns without calling run_sequence: no call is counted, no executor is
\* created, stopped or replaced, the caller does not block, and the schedule,
\* the recurrence and the sequence are as they were.
C24_IneligibleUntouched ==
    [][(MgrCheckScheduled /\ Ineligible) =>
            /\ runs' = runs
            /\ exec' = exec /\ executors' = executors
            /\ mgr' = "idle"
            /\ UNCHANGED << scheduled_time, recurrence_type, seqVars, sequences >>]_vars

\* The sequence is Running in its first task, its executor alive, with a
\* schedule that is due: the check may be called and leaves all of this.
C24_Witness ==
    /\ status = "running" /\ mgr = "idle"
    /\ executors = 1 /\ InFlight(1) /\ ~exec[1].stopped
    /\ scheduled_time = QDateTime(1, 500) /\ now = QDateTime(2, 0)
    /\ recurrence_type = "Weekly"
    /\ sequences

\* The recurrence kinds that give a next occurrence (lines 446-451).
Recurring == {"Daily", "Weekly", "Monthly"}

\* check_scheduled_sequences has triggered the sequence before: only it
\* changes scheduled_time, which is no longer a schedule the sequence was
\* added with.
HasFired == scheduled_time \notin ScheduleTimes

\* The step of check_scheduled_sequences that calls run_sequence: the call is
\* counted, and an executor is started unless the caller blocks in the join.
Triggers ==
    /\ MgrCheckScheduled
    /\ runs' = runs + 1
    /\ exec'[runs'].pc = "start" \/ mgr' = "check_scheduled_sequences"

\* C27: after check_scheduled_sequences has triggered a Daily, Weekly or
\* Monthly sequence and the run has ended, with status Complete or Stopped, a
\* call of check_scheduled_sequences at or after the advanced scheduled_time
\* triggers the sequence again (as far as the model follows calls of
\* run_sequence: MaxExec of them).
C27_RecurringFiresAgain ==
    (/\ mgr = "idle" /\ sequences
     /\ recurrence_type \in Recurring /\ HasFired
     /\ Alive = {} /\ status \in {"complete", "stopped"}
     /\ Before(scheduled_time, now)
     /\ runs < MaxExec)
    => ENABLED Triggers

\* C28: when check_scheduled_sequences has fired a Daily, Weekly or Monthly
\* sequence, the new scheduled_time is strictly later than the current time,
\* however far in the past the old one was.
C28_NextRunInFuture ==
    [][(Fires /\ recurrence_type \in Recurring) =>
            (scheduled_time' # NoTime /\ ~Before(scheduled_time', now))]_vars

(***************************************************************************)
(* Serialisation: ExperimentTask.to_dict / from_dict, ExperimentSequence   *)
(* .to_dict / from_dict, and the file SequenceManager.save_sequences       *)
(* writes and load_sequences reads.  None is the string "None" for a       *)
(* target name and NoStamp for a time string.                              *)
(***************************************************************************)
\* QDateTime.toString(Qt.ISODate) gives "yyyy-MM-ddTHH:mm:ss": the date and
\* the whole seconds of the time, no milliseconds.
MsPerSecond == 1000
ISODate(t) == [day |-> t.day, sec |-> t.ms \div MsPerSecond]
NoStamp == [day |-> -1, sec |-> 0]

\* QDateTime.fromString(text, Qt.ISODate)
fromString(text) == QDateTime(text.day, text.sec * MsPerSecond)

\* lines 27-38
TaskToDict(t) ==
    [name |-> t.name, task_type |-> t.task_type,
     target |-> IF t.target # 0 THEN inames[t.target] ELSE "None",
     function |-> t.function, parameters |-> t.parameters, delay |-> t.delay,
     repeat |-> t.repeat, condition |-> t.condition]

\* lines 44-49: the first instrument of the list that carries the name
Resolve(name) ==
    IF name # "None" /\ \E i \in Instruments : inames[i] = name
    THEN CHOOSE i \in Instruments :
            inames[i] = name /\ \A j \in Instruments : inames[j] = name => i <= j
    ELSE 0

\* Mutant of TaskFromDict: repeat is not read back.
TaskFromDictNoRepeat(id, data) ==
    ExperimentTask(id, data.name, data.task_type, Resolve(data.target), data.function,
                   data.parameters, data.delay, 1, data.condition)

\* lines 40-60; id names the new task object
TaskFromDict(id, data) ==
    ExperimentTask(id, data.name, data.task_type, Resolve(data.target), data.function,
                   data.parameters, data.delay, data.repeat, data.condition)

\* lines 94-100
SequenceToDict ==
    [tasks |-> [i \in DOMAIN tasks |-> TaskToDict(tasks[i])],
     scheduled_time |-> IF scheduled_time # NoTime THEN ISODate(scheduled_time) ELSE NoStamp]

\* lines 102-114: a new sequence; it has no recurrence_type attribute
SequenceFromDict(data) ==
    [via |-> "from_dict",
     tasks |-> [i \in DOMAIN data.tasks |-> TaskFromDict(i, data.tasks[i])],
     scheduled_time |-> IF data.scheduled_time # NoStamp
                        THEN fromString(data.scheduled_time) ELSE NoTime,
     recurrence_type |-> "absent"]

\* lines 351-360: the record save_sequences dumps for the sequence
\* (recurrence_type "absent": the key is not written)
SavedFile == [data |-> SequenceToDict, recurrence_type |-> recurrence_type]

\* lines 322-327: what load_sequences makes of the file
LoadedFile(file) ==
    [SequenceFromDict(file.data) EXCEPT !.via = "load_sequences",
                                        !.recurrence_type = file.recurrence_type]

\* ExperimentSequence.from_dict(sequence.to_dict(), instruments)
RoundTrip ==
    /\ loaded' = SequenceFromDict(SequenceToDict)
    /\ UNCHANGED << seqVars, schedVars, iparams, exec, storeVars, now, started, signals,
                    stopAtPause, stopInFlight, dryRun, returned,
                    inames >>

\* save_sequences, then load_sequences with the same instruments
SaveAndLoad ==
    /\ loaded' = LoadedFile(SavedFile)
    /\ UNCHANGED << seqVars, schedVars, iparams, exec, storeVars, now, started, signals,
                    stopAtPause, stopInFlight, dryRun, returned,
                    inames >>

InstrumentNames == {"dmm", "psu"}

\* an Instrument task on instrument object i
InstrOn(id, name, i, n) ==
    ExperimentTask(id, name, "instrument", i, "measure",
                   Params("task", TRUE, NoVal, "absent"), 250, n, <<>>)

FileCatalog ==
    { << InstrOn(1, "x", i, 1), Condition(2, "a", << "x", "6" >>, IntVal(0)),
         LoopStart(3, "b", n) >> : i \in Instruments, n \in 1..MaxRepeat }
    \cup { << Untargeted(1, "x", FALSE) >>, <<>> }

\* A sequence of the catalogue, scheduled or not, on a canvas whose
\* instruments carry any names (two copies of an instrument carry the same).
InitFile ==
    /\ \E ts \in FileCatalog : InitSequence(ts)
    /\ scheduled_time \in ScheduleTimes
    /\ recurrence_type \in Recurrences
    /\ exec = [e \in ExecIds |-> NoExec]
    /\ executors = 0
    /\ sequences = TRUE
    /\ mgr = "idle"
    /\ runs = 0
    /\ iparams = [i \in Instruments |-> "own"]
    /\ now = QDateTime(0, 0)
    /\ started = [i \in TaskIds |-> 0]
    /\ signals = [last |-> <<"none", -1>>, terminal |-> <<>>]
    /\ stopAtPause = FALSE
    /\ stopInFlight = FALSE
    /\ dryRun = FALSE
    /\ returned = NoReturn
    /\ loaded = NoLoad
    /\ inames \in [Instruments -> InstrumentNames]

NextFile == RoundTrip \/ SaveAndLoad

SpecFile == InitFile /\ [][NextFile]_vars

\* The fields of a task that to_dict writes, with the target as given.
Written(t, target) ==
    << t.name, t.task_type, target, t.function, t.parameters, t.delay, t.repeat,
       t.condition >>

SameTasks(ts, us) ==
    /\ Len(ts) = Len(us)
    /\ \A i \in DOMAIN ts : Written(ts[i], ts[i].target) = Written(us[i], us[i].target)

WholeSeconds(t) == IF t = NoTime THEN NoTime ELSE [t EXCEPT !.ms = @ - (@ % MsPerSecond)]

DistinctNames == \A i, j \in Instruments : inames[i] = inames[j] => i = j

AddTask(t) ==
    /\ \A i \in DOMAIN tasks : tasks[i].id # t.id
    /\ \A e \in ExecIds : exec[e].task.id # t.id
    /\ tasks' = Append(tasks, t)
    /\ dryRun' = FALSE
    /\ UNCHANGED << current_task, status, loop_stack, results, schedVars, iparams, exec,
                    storeVars, now, started, signals, stopAtPause, stopInFlight,
                    returned, fileVars >>

\* lines 79-82
RemoveTask(index) ==
    /\ tasks' = remove_task(tasks, index)
    /\ UNCHANGED << current_task, status, loop_stack, results, schedVars, iparams, exec,
                    storeVars, now, started, signals, stopAtPause, stopInFlight, dryRun, returned,
                    fileVars >>

\* lines 84-87
MoveTaskUp(index) ==
    /\ tasks' = move_task_up(tasks, index)
    /\ UNCHANGED << current_task, status, loop_stack, results, schedVars, iparams, exec,
                    storeVars, now, started, signals, stopAtPause, stopInFlight, dryRun, returned,
                    fileVars >>

\* lines 89-92
MoveTaskDown(index) ==
    /\ tasks' = move_task_down(tasks, index)
    /\ UNCHANGED << current_task, status, loop_stack, results, schedVars, iparams, exec,
                    storeVars, now, started, signals, stopAtPause, stopInFlight, dryRun, returned,
                    fileVars >>

\* lines 116-126, called on a sequence that no executor is running (the only
\* caller in the repository is the executor itself, line 147)
Reset ==
    /\ Alive = {}
    /\ reset
    /\ UNCHANGED << schedVars, iparams, exec, storeVars, now, started, signals,
                    stopAtPause, stopInFlight, dryRun, returned,
                    fileVars >>

\* src/cannex/ui/main_window.py, run_sequence: a new executor is built and
\* started unless the window's executor is running
UserRun ==
    /\ Alive = {}
    /\ runs < MaxExec
    /\ runs' = runs + 1
    /\ exec' = [exec EXCEPT ![runs + 1] = [NoExec EXCEPT !.pc = "start"]]
    /\ UNCHANGED << seqVars, schedVars, iparams, executors, sequences, mgr, now, started,
                    signals, stopAtPause, stopInFlight, dryRun, returned,
                    fileVars >>

EditCatalog == { << LoopStart(1, "a", 1), Instr(2, "x", FALSE) >> }

\* the task objects the Add button makes
NewTasks == { LoopEnd(3, "b") }

\* the index given: a row of the list, or none (-1), or one past the end
Rows == -1..Cardinality(TaskIds)

InitEdit ==
    /\ \E ts \in EditCatalog : InitSequence(ts)
    /\ scheduled_time = NoTime
    /\ recurrence_type = "absent"
    /\ exec = [e \in ExecIds |-> NoExec]
    /\ executors = 0
    /\ sequences = TRUE
    /\ mgr = "idle"
    /\ runs = 0
    /\ InitRest

NextEdit ==
    \/ \E e \in ExecIds : ExecStep(e)
    \/ \E e \in ExecIds : UserStop(e)
    \/ UserRun
    \/ \E t \in NewTasks : AddTask(t)
    \/ \E i \in Rows : RemoveTask(i)
    \/ \E i \in Rows : MoveTaskUp(i)
    \/ \E i \in Rows : MoveTaskDown(i)
    \/ Reset

SpecEdit == InitEdit /\ [][NextEdit]_vars

\* C9: in every state reached by editing, resetting and running the sequence,
\* 0 <= current_task <= len(tasks).
C9_CursorInRange == 0 <= current_task /\ current_task <= Len(tasks)

\* C10: in every state reached by editing, resetting and running the sequence,
\* every frame of loop_stack has a start index that is an index of tasks, and
\* the task there is a LoopStart.
C10_FramesPointAtLoopStart ==
    \A k \in DOMAIN loop_stack :
        /\ 0 <= loop_stack[k][1] /\ loop_stack[k][1] < Len(tasks)
        /\ tasks[loop_stack[k][1] + 1].task_type = "loop_start"

\* C11: in every state, a sequence whose status is Running has exactly one
\* executor thread alive, and a sequence with no executor thread alive has
\* status Stopped or Complete.
C11_RunningHasExecutor ==
    /\ status = "running" => Cardinality(Alive) = 1
    /\ Alive = {} => status \in {"stopped", "complete"}

(***************************************************************************)
(* Further claims about one run (checked under Spec).                      *)
(***************************************************************************)
\* The outcome of the task thread e holds is recorded: a result, the event of
\* the task as last signal, status Complete or Error (Running when the task
\* was a LoopEnd or Condition that jumped, lines 209-215 and 259-261), and
\* the value in results for an Instrument task that returned.
Recorded(e) ==
    LET t == tasks[exec[e].task_index + 1] IN
    /\ t.result # NoResult
    /\ \/ t.status = "complete" /\ signals.last = << "task_completed", exec[e].task_index >>
       \/ t.status = "error" /\ signals.last = << "task_error", exec[e].task_index >>
       \/ /\ t.status = "running" /\ t.task_type \in {"loop_end", "condition"}
          /\ signals.last = << "task_completed", exec[e].task_index >>
    /\ (t.task_type = "instrument" /\ t.status = "complete") =>
            (results[t.name] # NoVal /\ results[t.name] = t.result.v)

NoElseTarget(e) ==
    LET els == exec[e].task.parameters.else_index IN
    els.ty = "absent" \/ (els.ty = "int" /\ ~InRange(els.v, Len(tasks)))

\* C13: a Condition task that evaluates to true, whatever its else_index, and
\* one that evaluates to false with else_index absent or out of range, is
\* completed with the cursor left on it, and the next step of the thread
\* moves the cursor to the index of the task plus one.
C13_ConditionFallsThrough ==
    [][\A e \in ExecIds :
        /\ (/\ DispatchEnds(e)
            /\ exec[e].task.task_type = "condition"
            /\ \/ EvalCondition(exec[e].task.condition, results)
               \/ NoElseTarget(e))
           => /\ current_task' = exec[e].task_index
              /\ exec'[e].pc = "advance"
              /\ tasks'[exec[e].task_index + 1].status = "complete"
        /\ (At(e, "advance") /\ exec'[e].pc # "advance" /\ exec[e].task.task_type = "condition")
           => current_task' = exec[e].task_index + 1]_vars

\* A Condition with else_index 1 has evaluated to true and the cursor is on the
\* task after it.
C13_Witness ==
    /\ Len(tasks) = 3
    /\ tasks[2].task_type = "condition"
    /\ tasks[2].parameters.else_index = IntVal(1)
    /\ tasks[2].result = Res("Condition True") /\ tasks[2].status = "complete"
    /\ current_task = 2
    /\ \E e \in ExecIds : At(e, "guard")

\* C15: the dispatch of a Condition task whose condition string does not
\* evaluate (absent, without "==", with more than one "==", with a left side
\* that is no key of results, with a right side that cannot be coerced)
\* evaluates it to false and does not take the failure path: the task does not
\* get status Error, no task_error is emitted, and neither sequence.status nor
\* the stopped flag is set by it.
C15_ConditionNeverFails ==
    [][\A e \in ExecIds :
        (/\ DispatchEnds(e)
         /\ exec[e].task.task_type = "condition"
         /\ exec[e].task.condition \in MalformedConditions)
        => /\ ~EvalCondition(exec[e].task.condition, results)
           /\ tasks'[exec[e].task_index + 1].status # "error"
           /\ signals'.last # << "task_error", exec[e].task_index >>
           /\ status' = status
           /\ exec'[e].stopped = exec[e].stopped]_vars

(***************************************************************************)
(* Further claims about editing and running (checked under SpecEdit).      *)
(***************************************************************************)
\* C14: a run of a sequence with zero tasks, whatever earlier runs and edits
\* left in it, starts no task and never fetches one; when it ends without a
\* stop request the status is Complete, sequence_completed is the one
\* terminal signal and results is empty.
C14_DryRunCompletes ==
    /\ [](dryRun =>
            /\ \A i \in DOMAIN started : started[i] = 0
            /\ \A e \in Alive :
                exec[e].pc \in {"start", "setrun", "guard", "epi", "epi_complete",
                                "epi_stopped"})
    /\ [][\A e \in ExecIds :
            (dryRun /\ ExecFinish(e) /\ ~exec[e].stopped) =>
                /\ status' = "complete"
                /\ signals'.terminal = << "sequence_completed" >>
                /\ results' = NoResults
                /\ current_task' = 0 /\ loop_stack' = <<>>]_vars

\* The second run was made after every task had been removed, and has ended.
C14_Witness ==
    /\ dryRun /\ runs = 2 /\ Alive = {}
    /\ Len(tasks) = 0
    /\ status = "complete"
    /\ signals.terminal = << "sequence_completed" >>

\* how often task object t stands in the list ts
Count(ts, t) == Cardinality({k \in DOMAIN ts : ts[k] = t})

SameMultiset(ts, us) ==
    /\ Len(ts) = Len(us)
    /\ \A k \in DOMAIN ts : Count(ts, ts[k]) = Count(us, ts[k])

\* C17: remove_task(i) with i < 0 or i >= len(tasks), move_task_up(i) with
\* i <= 0 or i >= len(tasks) and move_task_down(i) with i < 0 or
\* i >= len(tasks) - 1 leave the task list as it is; with a valid index,
\* move_task_up and move_task_down give a list of the same length with the
\* same tasks as often, and move_task_down(i - 1) after move_task_up(i) gives
\* the list back.  This is said of the task list of every state, the lists
\* being those that the edits and the runs make.
C17_ListOperations ==
    \A i \in Rows :
        /\ (i < 0 \/ i >= Len(tasks)) => remove_task(tasks, i) = tasks
        /\ (i <= 0 \/ i >= Len(tasks)) => move_task_up(tasks, i) = tasks
        /\ (i < 0 \/ i >= Len(tasks) - 1) => move_task_down(tasks, i) = tasks
        /\ (0 < i /\ i < Len(tasks)) =>
                LET up == move_task_up(tasks, i) IN
                /\ SameMultiset(up, tasks)
                /\ up[i] = tasks[i + 1] /\ up[i + 1] = tasks[i]
                /\ move_task_down(up, i - 1) = tasks
        /\ (0 <= i /\ i < Len(tasks) - 1) =>
                LET down == move_task_down(tasks, i) IN
                /\ SameMultiset(down, tasks)
                /\ down[i + 1] = tasks[i + 2] /\ down[i + 2] = tasks[i + 1]

\* Before any run, the task that was added last has been moved up to the
\* front of a list of three.
C17_Witness ==
    /\ runs = 0
    /\ Len(tasks) = 3
    /\ tasks[1].task_type = "loop_end"
    /\ tasks[2].task_type = "loop_start"
    /\ tasks[3].task_type = "instrument"

\* C18: reset(), called by the executor at the start of a run or on a sequence
\* that is not running, in whatever state the sequence is, sets the cursor to
\* 0, the status to Stopped, loop_stack and results to empty and every task's
\* status to Pending and result to None, and leaves the tasks (their order and
\* configuration) and the schedule as they are.
C18_ResetClears ==
    [][(Reset \/ \E e \in ExecIds : ExecReset(e)) =>
            /\ current_task' = 0
            /\ status' = "stopped"
            /\ loop_stack' = <<>>
            /\ results' = NoResults
            /\ Len(tasks') = Len(tasks)
            /\ \A i \in DOMAIN tasks :
                /\ tasks'[i].status = "pending" /\ tasks'[i].result = NoResult
                /\ Config(tasks'[i]) = Config(tasks[i])
            /\ UNCHANGED schedVars]_vars

\* A run of two tasks has completed and reset() was called afterwards.
C18_Witness ==
    /\ Alive = {} /\ runs = 1
    /\ signals.terminal = << "sequence_completed" >>
    /\ Len(tasks) = 2
    /\ \A i \in DOMAIN tasks : tasks[i].status = "pending" /\ tasks[i].result = NoResult
    /\ current_task = 0 /\ status = "stopped" /\ results = NoResults

\* The kind of the last signal emitted.
LastKind == signals.last[1]

\* C20: in a run, task_started(i) is emitted only when no task is open, and is
\* answered by one task_completed(i) or task_error(i), emitted by the step
\* that ends the dispatch and by no other; a dispatch that raises emits
\* task_error with status Error; a run that has ended has emitted exactly one
\* terminal signal, and nothing is emitted after it until the next run.
C20_EventProtocol ==
    /\ [][\A e \in ExecIds :
            /\ (At(e, "begin") /\ exec'[e].pc = "dispatch") =>
                    /\ LastKind # "task_started"
                    /\ signals'.last = << "task_started", exec[e].task_index >>
            /\ (InFlight(e) /\ ~InFlight(e)') =>
                    /\ signals.last = << "task_started", exec[e].task_index >>
                    /\ signals'.last \in {<< "task_completed", exec[e].task_index >>,
                                          << "task_error", exec[e].task_index >>}
            /\ Raises(e) =>
                    /\ signals'.last = << "task_error", exec[e].task_index >>
                    /\ tasks'[exec[e].task_index + 1].status = "error"]_vars
    /\ [][(signals'.last # signals.last
           /\ signals'.last[1] \in {"task_started", "task_completed", "task_error"}) =>
                \E e \in ExecIds :
                    \/ At(e, "begin") /\ exec'[e].pc = "dispatch"
                    \/ InFlight(e) /\ ~InFlight(e)']_vars
    /\ [][(signals.terminal # <<>> /\ signals' # signals) => \E e \in ExecIds : ExecReset(e)]_vars
    /\ [](Len(signals.terminal) <= 1)
    /\ []((runs >= 1 /\ Alive = {}) =>
            /\ Len(signals.terminal) = 1
            /\ LastKind \in {"sequence_completed", "sequence_stopped"})

(***************************************************************************)
(* Claims about the events and statuses of one run (checked under Spec).   *)
(***************************************************************************)
\* The thread stands at a checkpoint: the loop guard, the pause check or the
\* stop check before a task (lines 150-160).
AtCheckpoint(e) == exec[e].pc \in {"guard", "pause", "stopchk"}

\* C21: whenever task_completed(i) is the signal last emitted, tasks[i] has
\* status Complete, also when the task is a LoopEnd that jumped back or a
\* Condition that took its else jump; and at every checkpoint, and when the
\* run has ended, no task has status Running.
C21_CompletedIsComplete ==
    /\ LastKind = "task_completed" => tasks[signals.last[2] + 1].status = "complete"
    /\ ((\E e \in ExecIds : AtCheckpoint(e)) \/ Alive = {}) =>
            \A i \in DOMAIN tasks : tasks[i].status # "running"

\* The tasks of the sequence are run once each, in order: no LoopStart,
\* LoopEnd or Condition among them.
IsStraightLine ==
    \A i \in DOMAIN tasks : tasks[i].task_type \notin {"loop_start", "loop_end", "condition"}

\* A turn of the pause loop of thread e: paused is set and stopped is not.
PauseTurn(e) == ExecPauseCheck(e) /\ exec[e].paused /\ ~exec[e].stopped

\* C22: a turn of the pause loop sets the status to Paused, emits
\* sequence_paused, starts no task and leaves the cursor; the status becomes
\* Paused by such a turn only, so never while a task is fetched, started or in
\* flight; from the pause check to the fetch the cursor does not move, the
\* stop check of a thread that is not stopped sets the status back to Running
\* and the task fetched and started is the one at the cursor; and a sequence
\* of tasks without loops and conditions, run without error and stop request,
\* has each task started at most once, and once when it is Complete, however
\* pause() and resume() were called.
C22_PauseAtCheckpoint ==
    /\ [][\A e \in ExecIds :
            /\ PauseTurn(e) =>
                /\ status' = "paused"
                /\ signals'.last = << "sequence_paused", -1 >>
                /\ exec'[e].pc = "pause"
                /\ UNCHANGED << started, current_task, tasks, loop_stack, results >>
            /\ (exec[e].pc \in {"pause", "stopchk"}) =>
                UNCHANGED << started, current_task >>
            /\ (ExecStopCheck(e) /\ ~exec[e].stopped) =>
                (status' = "running" /\ exec'[e].pc = "fetch")
            /\ ExecFetch(e) =>
                (exec'[e].task_index = current_task /\ current_task' = current_task)
            /\ ExecBegin(e) =>
                (exec[e].task_index = current_task
                 /\ signals'.last = << "task_started", current_task >>)]_vars
    /\ [][(status' = "paused" /\ status # "paused") => \E e \in ExecIds : PauseTurn(e)]_vars
    /\ [](status = "paused" =>
            \A e \in Alive : exec[e].pc \in {"pause", "stopchk", "epi", "epi_stopped"})
    /\ []((IsStraightLine /\ NoErrorNoStop) =>
            /\ \A i \in DOMAIN tasks : started[tasks[i].id] <= 1
            /\ status = "complete" => \A i \in DOMAIN tasks : started[tasks[i].id] = 1)

\* The run was paused between its first and its second task and resume() was
\* called: the thread has left the pause loop with the cursor on the second
\* task, which was not started yet.
C22_Witness ==
    /\ status = "paused"
    /\ \E e \in Alive : At(e, "stopchk") /\ ~exec[e].paused /\ ~exec[e].stopped
    /\ IsStraightLine /\ Len(tasks) = 2
    /\ current_task = 1
    /\ tasks[1].status = "complete" /\ started[tasks[1].id] = 1
    /\ tasks[2].status = "pending" /\ started[tasks[2].id] = 0

\* The task of thread e is a LoopEnd and no frame is on the stack.
UnmatchedLoopEnd(e) == exec[e].task.task_type = "loop_end" /\ loop_stack = <<>>

\* C25: the dispatch of a LoopEnd task with loop_stack empty gives the task
\* the warning as result and status Complete, emits task_completed, leaves
\* loop_stack empty and the cursor on the task, and sets neither
\* sequence.status nor the stopped flag; the next step of the thread advances
\* the cursor by one and goes back to the loop guard.
C25_UnmatchedLoopEnd ==
    [][\A e \in ExecIds :
        /\ (ExecDispatch(e) /\ UnmatchedLoopEnd(e)) =>
            /\ tasks'[exec[e].task_index + 1].status = "complete"
            /\ tasks'[exec[e].task_index + 1].result = Res("Warning")
            /\ signals'.last = << "task_completed", exec[e].task_index >>
            /\ loop_stack' = <<>>
            /\ current_task' = exec[e].task_index
            /\ status' = status
            /\ exec'[e].stopped = exec[e].stopped
            /\ exec'[e].pc = "advance"
        /\ (ExecAdvance(e) /\ UnmatchedLoopEnd(e)) =>
            /\ current_task' = exec[e].task_index + 1
            /\ loop_stack' = <<>>
            /\ exec'[e].pc = "guard"]_vars

\* A LoopEnd without LoopStart was the third of four tasks; the run went on
\* to the fourth and has completed.
C25_Witness ==
    /\ Len(tasks) = 4
    /\ tasks[3].task_type = "loop_end"
    /\ tasks[3].status = "complete" /\ tasks[3].result = Res("Warning")
    /\ tasks[4].status = "complete"
    /\ status = "complete" /\ Alive = {}
    /\ loop_stack = <<>> /\ current_task = 4

(***************************************************************************)
(* One run left to itself: the thread is scheduled until run() returns and *)
(* no call is made on it from the main thread.                             *)
(***************************************************************************)
NextRun == \E e \in ExecIds : ExecStep(e)

\* A started QThread is scheduled by the operating system as long as it can
\* take a step.
SpecRun == Init /\ [][NextRun]_vars /\ WF_vars(NextRun)

IsLoopStart(t) == t.task_type = "loop_start"
IsLoopEnd(t) == t.task_type = "loop_end"

RECURSIVE OpenLoops(_, _)
\* how many LoopStart tasks among the first k tasks of ts have no LoopEnd yet
OpenLoops(ts, k) ==
    IF k = 0 THEN 0
    ELSE OpenLoops(ts, k - 1)
            + (IF IsLoopStart(ts[k]) THEN 1 ELSE IF IsLoopEnd(ts[k]) THEN -1 ELSE 0)

\* No Condition task, and the LoopStart and LoopEnd tasks match as brackets.
ProperlyNested ==
    /\ \A k \in DOMAIN tasks : tasks[k].task_type # "condition"
    /\ \A k \in DOMAIN tasks : OpenLoops(tasks, k) >= 0
    /\ OpenLoops(tasks, Len(tasks)) = 0

NumLoopStarts == Cardinality({k \in DOMAIN tasks : IsLoopStart(tasks[k])})

\* The run has ended: run() has returned after its epilogue.
Ended ==
    /\ Alive = {}
    /\ status \in {"complete", "stopped"}
    /\ Len(signals.terminal) = 1

\* C26: a run of a sequence without Condition task and with properly nested
\* loops, on which no stop() is called, eventually ends with status Complete
\* or Stopped and its terminal signal emitted, and during the run loop_stack
\* never holds more frames than the sequence has LoopStart tasks.
C26_RunTerminates ==
    /\ [](ProperlyNested => Len(loop_stack) <= NumLoopStarts)
    /\ (ProperlyNested ~> Ended)

(***************************************************************************)
(* Runs of a sequence one after the other: the window runs the sequence    *)
(* again when its executor has finished; stop() may be called on a run.    *)
(***************************************************************************)
NextRerun ==
    \/ \E e \in ExecIds : ExecStep(e)
    \/ \E e \in ExecIds : UserStop(e)
    \/ UserRun

SpecRerun == Init /\ [][NextRerun]_vars

\* The call of the Instrument task tasks[i] has returned in the latest run,
\* and v is what its latest return gave, unless the task was started again
\* since.
ReturnedIn(i, v) ==
    /\ tasks[i].task_type = "instrument" /\ tasks[i].target # 0
    /\ started[tasks[i].id] >= 1
    /\ \/ tasks[i].result = [tag |-> "value", v |-> v]
       \/ started[tasks[i].id] >= 2

\* C30: results has an entry only under the name of an Instrument task whose
\* call has returned in the latest run, with a value the call returned; an
\* entry is written only by the return of an instrument call, which stores
\* the value returned under the name of its task (the same value becomes the
\* result of the task), and by reset(), which empties results at the start of
\* every run; the dispatch of every other task, and a call that raises, leave
\* results as it is.
C30_ResultsFromInstrumentCalls ==
    /\ [](\A n \in Names :
            results[n] # NoVal =>
                /\ results[n] \in RetVals
                /\ \E i \in DOMAIN tasks : tasks[i].name = n /\ ReturnedIn(i, results[n]))
    /\ [][\A e \in ExecIds :
            /\ ExecCallReturn(e) =>
                \E v \in RetVals :
                    /\ results' = [results EXCEPT ![exec[e].task.name] = v]
                    /\ tasks'[exec[e].task_index + 1].result = [tag |-> "value", v |-> v]
            /\ ExecReset(e) => results' = NoResults
            /\ (ExecDispatch(e) \/ ExecCallRaise(e)) => results' = results]_vars
    /\ [][results' # results => \E e \in ExecIds : ExecCallReturn(e) \/ ExecReset(e)]_vars

\* In the second run of [Instrument x, Instrument y] the call of x has
\* returned and the call of y has raised: x has an entry, y has none.
C30_Witness ==
    /\ runs = 2 /\ Alive = {}
    /\ Len(tasks) = 2
    /\ tasks[1].name = "x" /\ tasks[1].status = "complete" /\ results["x"] \in RetVals
    /\ tasks[2].name = "y" /\ tasks[2].status = "error" /\ results["y"] = NoVal

====
